---- MODULE Spec2Model ----
(***************************************************************************)
(* Model of the block-event listener of gohfc (event.go):                  *)
(*   newEventListener -> connect -> register -> go readBlock               *)
(*   readBlock: Recv loop, DecodeEventBlock per transaction, channel send  *)
(*   DecodeEventBlock: the nested unmarshal pipeline                       *)
(*                                                                         *)
(* Byte strings are modelled by what proto.Unmarshal makes of them: a      *)
(* transaction entry is a record that says, for every unmarshal call of    *)
(* DecodeEventBlock, whether it succeeds and which fields it yields.       *)
(* Go slices are 0-based, TLA+ sequences 1-based: At(s, k) is s[k] of Go.  *)
(* A Go run-time panic (nil dereference, index out of range) in the        *)
(* reader goroutine is not recovered anywhere and ends the process.        *)
(***************************************************************************)
EXTENDS Naturals, Integers, Sequences, FiniteSets, TLC

VARIABLES
    lpc,        \* position of newEventListener: start, dialed, connected, registered, returned
    ret,        \* value returned by newEventListener: "pending", "nil" or the error
    connection, \* eventHub.connection: "none", "open", "closed"
    client,     \* eventHub.client (the Chat stream): "none", "open", "sendClosed"
    wire,       \* SignedEvent messages put on the stream by register
    rpc,        \* position of the readBlock goroutine
    cur,        \* readBlock's `in`: the Block message being iterated
    i,          \* readBlock's loop index over in.GetBlock().Data.Data
    recvErr,    \* readBlock's `err` while the error record waits to be sent
    cap,        \* capacity of the response channel the caller made
    closed,     \* whether the response channel has been closed
    sent,       \* every value sent on the response channel, in send order
    nGot,       \* how many of them the consumer has received
    blocks,     \* every Block message Recv returned, in arrival order
    nRecv,      \* number of messages Recv returned
    term,       \* how readBlock ended: "no", "Closed" (EOF), "Failed" (error), "Panic"
    dIn,        \* arguments of a stand-alone DecodeEventBlock call
    dOut,       \* its outcome
    dpc,        \* "idle", "ready", "done"
    consuming,  \* whether the consumer still receives from the response channel
    peerOf,     \* the Peer value each newEventListener call was given
    pOpts,      \* Peer.Opts of every Peer value
    cpc,        \* position of each call inside connect: start, appended, stored, dialed
    tmp,        \* the slice append built for each call, before it is stored in p.Opts
    dialOpts    \* the options each call passed to grpc.Dial

vars == <<lpc, ret, connection, client, wire, rpc, cur, i, recvErr, cap, closed,
          sent, nGot, blocks, nRecv, term, dIn, dOut, dpc, consuming,
          peerOf, pOpts, cpc, tmp, dialOpts>>

listenerVars == <<lpc, ret, connection, client, wire>>
readerVars == <<rpc, cur, i, recvErr, closed, sent, nGot, blocks, nRecv, term>>
decodeVars == <<dIn, dOut, dpc>>
peerVars == <<peerOf, pOpts, cpc, tmp, dialOpts>>

-----------------------------------------------------------------------------
(* Bounds *)

MaxMsgs == 2     \* messages Recv returns before the stream ends
MaxTx == 2       \* transaction entries in a block
MaxCap == 1      \* capacity of the response channel
MaxFaults == 2   \* unmarshal calls that fail on one transaction entry
MaxSubs == 3     \* newEventListener calls that may share a Peer value

(* Program constants *)

HeaderType_ENDORSER_TRANSACTION == 3
HeaderType_CONFIG == 1
BlockMetadataIndex_TRANSACTIONS_FILTER == 2
TxValidationCode_VALID == 0
TxValidationCode_MVCC_READ_CONFLICT == 11

-----------------------------------------------------------------------------
(* Go indexing *)

At(s, k) == s[k + 1]
InRange(s, k) == k >= 0 /\ k < Len(s)

-----------------------------------------------------------------------------
(* BlockEventResponse and DecodeEventBlock *)

\* BlockEventResponse{}: Go's zero value.
ZeroResponse ==
    [Error |-> "nil", IsVaild |-> FALSE, BlockHeight |-> 0, TxIndex |-> 0,
     TxID |-> "", ChannelName |-> "", ChainCodeName |-> "", ChainCodeVersion |-> "",
     Status |-> 0, ChainCodeInput |-> <<>>, CCEvents |-> <<>>]

\* Outcome of a call: it returns a response, or it panics.
Returns(response) == [panic |-> "none", resp |-> response]
Panics(what) == [panic |-> what, resp |-> ZeroResponse]

\* response.Error = err
WithError(response, err) == [response EXCEPT !.Error = err]

\* IsValid that looks at the first flag whatever the index.
IsValid_First(txsFltr, idx) == At(txsFltr, 0) = TxValidationCode_VALID

\* util.TxValidationFlags.IsValid(idx): Flag(idx) == VALID, where Flag indexes the array.
IsValid(txsFltr, idx) == At(txsFltr, idx) = TxValidationCode_VALID

\* BaseFields that reads the status byte of the first entry.
BaseFields_StatusFirst(response, pl, blockNum, idx, metadata) ==
    [response EXCEPT !.IsVaild = IsValid(At(metadata, 2), idx),
                     !.BlockHeight = blockNum,
                     !.TxIndex = idx,
                     !.TxID = pl.TxId,
                     !.ChannelName = pl.ChannelId,
                     !.ChainCodeName = IF pl.hasCcId THEN pl.CcName ELSE "",
                     !.ChainCodeVersion = IF pl.hasCcId THEN pl.CcVersion ELSE "",
                     !.Status = At(At(metadata, 2), 0)]

\* BaseFields with the loop index off by one in TxIndex.
BaseFields_TxIndexOff(response, pl, blockNum, idx, metadata) ==
    [response EXCEPT !.IsVaild = IsValid(At(metadata, 2), idx),
                     !.BlockHeight = blockNum,
                     !.TxIndex = idx + 1,
                     !.TxID = pl.TxId,
                     !.ChannelName = pl.ChannelId,
                     !.ChainCodeName = IF pl.hasCcId THEN pl.CcName ELSE "",
                     !.ChainCodeVersion = IF pl.hasCcId THEN pl.CcVersion ELSE "",
                     !.Status = At(At(metadata, 2), idx)]

\* Lines 161-171: the base fields, once stages 1-4 passed and the indexes are in range.
BaseFields(response, pl, blockNum, idx, metadata) ==
    LET txsFltr == At(metadata, BlockMetadataIndex_TRANSACTIONS_FILTER)
        r1 == [response EXCEPT !.IsVaild = IsValid(txsFltr, idx),
                               !.BlockHeight = blockNum,
                               !.TxIndex = idx,
                               !.TxID = pl.TxId,
                               !.ChannelName = pl.ChannelId]
        r2 == IF pl.hasCcId
              THEN [r1 EXCEPT !.ChainCodeName = pl.CcName, !.ChainCodeVersion = pl.CcVersion]
              ELSE r1
    IN  [r2 EXCEPT !.Status = At(At(metadata, 2), idx)]

\* Lines 203-224: the action's response payload, down to the chaincode event.
ResponsePart(response, pl) ==
    IF ~pl.hasAction THEN Panics("nil chainCodeActionPayload.Action")
    ELSE IF ~pl.prpOk THEN Returns(WithError(response, "ErrProposalResponsePayload"))
    ELSE IF ~pl.caOk THEN Returns(WithError(response, "ErrChaincodeAction"))
    ELSE IF ~pl.evOk THEN Returns(WithError(response, "ErrChaincodeEvent"))
    ELSE Returns([response EXCEPT !.CCEvents =
                    Append(@, [EventName |-> pl.EventName, EventPayload |-> pl.EventPayload])])

\* EndorserPart that never stores the invocation arguments.
EndorserPart_NoArgs(response, pl) ==
    IF ~pl.txOk THEN Returns(WithError(response, "ErrTransaction"))
    ELSE IF ~(0 < pl.nActions) THEN Panics("index out of range: tx.Actions[0]")
    ELSE IF ~pl.capOk THEN Returns(WithError(response, "ErrChaincodeActionPayload"))
    ELSE IF ~pl.cppOk THEN Returns(WithError(response, "ErrChaincodeProposalPayload"))
    ELSE IF ~pl.cisOk THEN Returns(WithError(response, "ErrChaincodeInvocationSpec"))
    ELSE ResponsePart(response, pl)

\* Lines 173-201: the transaction, its first action, down to the invocation spec.
EndorserPart(response, pl) ==
    IF ~pl.txOk THEN Returns(WithError(response, "ErrTransaction"))
    ELSE IF ~(0 < pl.nActions) THEN Panics("index out of range: tx.Actions[0]")
    ELSE IF ~pl.capOk THEN Returns(WithError(response, "ErrChaincodeActionPayload"))
    ELSE IF ~pl.cppOk THEN Returns(WithError(response, "ErrChaincodeProposalPayload"))
    ELSE IF ~pl.cisOk THEN Returns(WithError(response, "ErrChaincodeInvocationSpec"))
    ELSE ResponsePart([response EXCEPT !.ChainCodeInput = pl.Args], pl)

\* Lines 161-226.
AfterHeaders(response, pl, blockNum, idx, metadata) ==
    IF ~InRange(metadata, BlockMetadataIndex_TRANSACTIONS_FILTER)
    THEN Panics("index out of range: metadata[2]")
    ELSE IF ~InRange(At(metadata, BlockMetadataIndex_TRANSACTIONS_FILTER), idx)
    THEN Panics("index out of range: txsFltr[idx]")
    ELSE LET r5 == BaseFields(response, pl, blockNum, idx, metadata)
         IN  IF pl.Type = HeaderType_ENDORSER_TRANSACTION
             THEN EndorserPart(r5, pl)
             ELSE Returns(r5)

\* Headers that copies the transaction id before the extension is checked.
Headers_EarlyTxId(response, pl, blockNum, idx, metadata) ==
    LET r2 == IF pl.payOk THEN response ELSE WithError(response, "ErrPayload")
    IN  IF ~pl.hasHeader THEN Panics("nil payload.Header")
        ELSE IF ~pl.chOk THEN Returns(WithError(r2, "ErrChannelHeader"))
        ELSE IF ~pl.extOk
             THEN Returns(WithError([r2 EXCEPT !.TxID = pl.TxId], "ErrHeaderExtension"))
        ELSE AfterHeaders(r2, pl, blockNum, idx, metadata)

\* Lines 149-159: payload (failure recorded, not returned), channel header, extension.
Headers(response, pl, blockNum, idx, metadata) ==
    LET r2 == IF pl.payOk THEN response ELSE WithError(response, "ErrPayload")
    IN  IF ~pl.hasHeader THEN Panics("nil payload.Header")
        ELSE IF ~pl.chOk THEN Returns(WithError(r2, "ErrChannelHeader"))
        ELSE IF ~pl.extOk THEN Returns(WithError(r2, "ErrHeaderExtension"))
        ELSE AfterHeaders(r2, pl, blockNum, idx, metadata)

DecodeEventBlock(pl, blockNum, idx, metadata) ==
    IF ~pl.envOk THEN Returns(WithError(ZeroResponse, "ErrEnvelope"))
    ELSE Headers(ZeroResponse, pl, blockNum, idx, metadata)

-----------------------------------------------------------------------------
(* Inputs: transaction entries, metadata, blocks, stream messages *)

TxIds == {"tx1", "tx2"}
BlockNums == {0, 7}
FlagBytes == {TxValidationCode_VALID, TxValidationCode_MVCC_READ_CONFLICT}
RecvErrors == {"ErrUnavailable", "ErrCanceled"}
OtherKinds == {"Register", "Rejection"}

\* A well-formed entry: every unmarshal of DecodeEventBlock succeeds on it.
GoodTx(type, txId, n, args) ==
    [envOk |-> TRUE, payOk |-> TRUE, hasHeader |-> TRUE, chOk |-> TRUE, extOk |-> TRUE,
     Type |-> type, TxId |-> txId, ChannelId |-> "mychannel",
     hasCcId |-> TRUE, CcName |-> "mycc", CcVersion |-> "1.0",
     txOk |-> TRUE, nActions |-> n, capOk |-> TRUE, cppOk |-> TRUE, cisOk |-> TRUE,
     Args |-> args, hasAction |-> TRUE, prpOk |-> TRUE, caOk |-> TRUE, evOk |-> TRUE,
     EventName |-> "event1", EventPayload |-> "hello"]

\* The unmarshal results and optional sub-messages that bad bytes can take away.
TxFlags == {"envOk", "payOk", "hasHeader", "chOk", "extOk", "hasCcId", "txOk",
            "capOk", "cppOk", "cisOk", "hasAction", "prpOk", "caOk", "evOk"}

Faulty(g, F) == [f \in DOMAIN g |-> IF f \in F THEN FALSE ELSE g[f]]

FaultSets == {F \in SUBSET TxFlags : Cardinality(F) <= MaxFaults}

InvokeArgs == <<"a", "b", "20">>

DecodeTxs ==
    {Faulty(GoodTx(t, id, n, a), F) :
        t \in {HeaderType_ENDORSER_TRANSACTION, HeaderType_CONFIG},
        id \in TxIds, n \in 0..2, a \in {<<>>, InvokeArgs}, F \in FaultSets}

\* Block.Metadata.Metadata: entry 2 holds the validation flags, one byte per entry.
MetaWith(flags) == << <<>>, <<>>, flags >>
FlagArrays(n) == [1..n -> FlagBytes]
DecodeMetas ==
    {<<>>, << <<>>, <<>> >>} \cup {MetaWith(f) : f \in UNION {FlagArrays(n) : n \in 0..MaxTx}}

DecodeCalls ==
    [pl : DecodeTxs, blockNum : BlockNums, idx : 0..(MaxTx - 1), metadata : DecodeMetas]

NoCall ==
    [pl |-> GoodTx(HeaderType_CONFIG, "tx1", 0, <<>>), blockNum |-> 0, idx |-> 0,
     metadata |-> <<>>]

\* Entries the stream carries: a well-formed one, one whose envelope does not
\* parse, one whose payload does not parse (no header decoded), one with no action.
EndorserTx == GoodTx(HeaderType_ENDORSER_TRANSACTION, "tx1", 1, InvokeArgs)
BadEnvelopeTx == Faulty(EndorserTx, {"envOk"})
BadPayloadTx == Faulty(EndorserTx, {"payOk", "hasHeader"})
NoActionTx == [EndorserTx EXCEPT !.nActions = 0]
StreamTxs == {EndorserTx, BadEnvelopeTx, BadPayloadTx, NoActionTx}

TxSeqs == UNION {[1..n -> StreamTxs] : n \in 0..MaxTx}

Block(num, data, meta) ==
    [number |-> num, hasData |-> TRUE, data |-> data, hasMetadata |-> TRUE, metadata |-> meta]

AllValid(n) == [k \in 1..n |-> TxValidationCode_VALID]

\* Blocks the peer may send: well-formed metadata around every sequence of
\* entries, and some blocks with other numbers, flags and malformed metadata.
Blocks ==
    {Block(7, data, MetaWith(AllValid(Len(data)))) : data \in TxSeqs}
    \cup {Block(0, <<EndorserTx>>, MetaWith(<<TxValidationCode_VALID>>)),
          Block(8, <<EndorserTx>>, MetaWith(<<TxValidationCode_MVCC_READ_CONFLICT>>)),
          Block(8, <<EndorserTx>>, << <<>>, <<>> >>),
          Block(8, <<EndorserTx, EndorserTx>>, MetaWith(<<TxValidationCode_VALID>>)),
          [Block(8, <<EndorserTx>>, <<>>) EXCEPT !.hasMetadata = FALSE],
          [Block(8, <<>>, MetaWith(<<>>)) EXCEPT !.hasData = FALSE]}

NoBlock == Block(0, <<>>, <<>>)

-----------------------------------------------------------------------------
(* The response channel *)

\* A value on the channel: the BlockEventResponse, and where it came from
\* (blk: arrival number of its block, 0 for the stream-error record; idx: entry).
Item(blk, idx, response) == [blk |-> blk, idx |-> idx, rec |-> response]

\* A send that gives up when the value cannot be taken at once.
ChanSend_Drop(v) ==
    \/ /\ Len(sent) - nGot < cap
       /\ sent' = Append(sent, v)
       /\ nGot' = nGot
    \/ /\ cap = 0
       /\ consuming
       /\ Len(sent) = nGot
       /\ sent' = Append(sent, v)
       /\ nGot' = nGot + 1
    \/ /\ ~(Len(sent) - nGot < cap)
       /\ ~(cap = 0 /\ consuming /\ Len(sent) = nGot)
       /\ sent' = sent
       /\ nGot' = nGot

\* response <- v: completes when the buffer has room, or, on an unbuffered
\* channel, when the consumer takes the value in the same step.
ChanSend(v) ==
    \/ /\ Len(sent) - nGot < cap
       /\ sent' = Append(sent, v)
       /\ nGot' = nGot
    \/ /\ cap = 0
       /\ consuming
       /\ Len(sent) = nGot
       /\ sent' = Append(sent, v)
       /\ nGot' = nGot + 1

\* The consumer receives the oldest buffered value.
Receive ==
    /\ consuming
    /\ nGot < Len(sent)
    /\ nGot' = nGot + 1
    /\ UNCHANGED <<listenerVars, rpc, cur, i, recvErr, cap, closed, sent, blocks, nRecv,
                   term, decodeVars,
                   consuming, peerVars>>

\* The consumer stops receiving (it returns, or blocks elsewhere) for good.
ConsumerStops ==
    /\ consuming
    /\ consuming' = FALSE
    /\ UNCHANGED <<listenerVars, readerVars, cap, decodeVars, peerVars>>

-----------------------------------------------------------------------------
(* connect on Peer values that several newEventListener calls may share *)

Subs == 1..MaxSubs
Peers == {"peer0", "peer1"}

\* p.Opts as the caller configured it, and what connect appends (lines 51-53).
CallerOpts == <<"WithInsecure">>
AddedOpts == <<"WithBlock", "WithTimeout", "WithDefaultCallOptions">>

\* Lines 51-53, the right-hand side: append reads p.Opts and builds the new slice.
AppendOpts(s) ==
    /\ cpc[s] = "start"
    /\ tmp' = [tmp EXCEPT ![s] = pOpts[peerOf[s]] \o AddedOpts]
    /\ cpc' = [cpc EXCEPT ![s] = "appended"]
    /\ UNCHANGED <<listenerVars, readerVars, cap, decodeVars, consuming, peerOf, pOpts,
                   dialOpts>>

\* Line 51, the assignment: the new slice is stored in the Peer's Opts field.
StoreOpts(s) ==
    /\ cpc[s] = "appended"
    /\ pOpts' = [pOpts EXCEPT ![peerOf[s]] = tmp[s]]
    /\ cpc' = [cpc EXCEPT ![s] = "stored"]
    /\ UNCHANGED <<listenerVars, readerVars, cap, decodeVars, consuming, peerOf, tmp,
                   dialOpts>>

\* Line 54: grpc.Dial(p.Uri, p.Opts...) reads p.Opts again.
DialWithOpts(s) ==
    /\ cpc[s] = "stored"
    /\ dialOpts' = [dialOpts EXCEPT ![s] = pOpts[peerOf[s]]]
    /\ cpc' = [cpc EXCEPT ![s] = "dialed"]
    /\ UNCHANGED <<listenerVars, readerVars, cap, decodeVars, consuming, peerOf, pOpts,
                   tmp>>

\* No call has touched any Peer yet.
PeersUntouched ==
    /\ pOpts = [p \in Peers |-> CallerOpts]
    /\ cpc = [s \in Subs |-> "start"]
    /\ tmp = [s \in Subs |-> <<>>]
    /\ dialOpts = [s \in Subs |-> <<>>]

-----------------------------------------------------------------------------
(* newEventListener: connect, register, go readBlock *)

\* A return with an error: nothing else is done on the way out.
ReturnErr(err) ==
    /\ lpc' = "returned"
    /\ ret' = err

\* connect, lines 54-58: grpc.Dial.
Dial ==
    /\ lpc = "start"
    /\ \/ /\ connection' = "open"
          /\ lpc' = "dialed"
          /\ ret' = ret
       \/ /\ ReturnErr("ErrDial")
          /\ connection' = connection
    /\ UNCHANGED <<client, wire, readerVars, cap, decodeVars,
                   consuming, peerVars>>

\* connect, lines 59-65: event.Chat opens the stream.
Chat ==
    /\ lpc = "dialed"
    /\ \/ /\ client' = "open"
          /\ lpc' = "connected"
          /\ ret' = ret
       \/ /\ ReturnErr("ErrChat")
          /\ client' = client
    /\ UNCHANGED <<connection, wire, readerVars, cap, decodeVars,
                   consuming, peerVars>>

\* proto.Marshal(interest): the register request for whole-block events.
EvtBytes == <<"Register", "BLOCK", "creator">>
\* crypto.Sign(evtBytes, key)
Sign(bytes) == <<"sig", bytes>>

\* Register that marshals the request a second time for the message it sends.
Register_Remarshal ==
    /\ lpc = "connected"
    /\ \/ /\ ReturnErr("ErrSign")
          /\ wire' = wire
       \/ /\ ReturnErr("ErrSend")
          /\ wire' = wire
       \/ /\ wire' = Append(wire, [EventBytes |-> EvtBytes \o <<"remarshalled">>,
                                   Signature |-> Sign(EvtBytes)])
          /\ lpc' = "registered"
          /\ ret' = ret
    /\ UNCHANGED <<connection, client, readerVars, cap, decodeVars,
                   consuming, peerVars>>

\* register, lines 68-94.
Register ==
    /\ lpc = "connected"
    /\ \/ /\ ReturnErr("ErrSign")
          /\ wire' = wire
       \/ /\ ReturnErr("ErrSend")
          /\ wire' = wire
       \/ /\ wire' = Append(wire, [EventBytes |-> EvtBytes, Signature |-> Sign(EvtBytes)])
          /\ lpc' = "registered"
          /\ ret' = ret
    /\ UNCHANGED <<connection, client, readerVars, cap, decodeVars,
                   consuming, peerVars>>

\* Go that starts the reader whether or not connect and register succeeded.
Go_Always ==
    /\ lpc \in {"registered", "returned"}
    /\ rpc = "idle"
    /\ ret # "nil"
    /\ lpc' = "returned"
    /\ ret' = IF lpc = "registered" THEN "nil" ELSE ret
    /\ rpc' = "recv"
    /\ UNCHANGED <<connection, client, wire, cur, i, recvErr, cap, closed, sent, nGot,
                   blocks, nRecv, term, decodeVars,
                   consuming, peerVars>>

\* Lines 111-112: go hub.readBlock(response); return nil.
Go ==
    /\ lpc = "registered"
    /\ lpc' = "returned"
    /\ ret' = "nil"
    /\ rpc' = "recv"
    /\ UNCHANGED <<connection, client, wire, cur, i, recvErr, cap, closed, sent, nGot,
                   blocks, nRecv, term, decodeVars,
                   consuming, peerVars>>

-----------------------------------------------------------------------------
(* readBlock *)

\* disconnect, lines 96-99.
Disconnect ==
    /\ client' = "sendClosed"
    /\ connection' = "closed"

\* RecvEOF that returns without calling disconnect.
RecvEOF_NoDisconnect ==
    /\ rpc = "recv"
    /\ rpc' = "done"
    /\ term' = "Closed"
    /\ UNCHANGED <<listenerVars, cur, i, recvErr, cap, closed, sent, nGot, blocks,
                   nRecv, decodeVars,
                   consuming, peerVars>>

\* Lines 117-121: Recv returns io.EOF.
RecvEOF ==
    /\ rpc = "recv"
    /\ Disconnect
    /\ rpc' = "done"
    /\ term' = "Closed"
    /\ UNCHANGED <<lpc, ret, wire, cur, i, recvErr, cap, closed, sent, nGot, blocks,
                   nRecv, decodeVars,
                   consuming, peerVars>>

\* RecvError that disconnects before the error record is sent.
RecvError_EarlyDisconnect(err) ==
    /\ rpc = "recv"
    /\ rpc' = "sendErr"
    /\ recvErr' = err
    /\ Disconnect
    /\ UNCHANGED <<lpc, ret, wire, cur, i, cap, closed, sent, nGot, blocks, nRecv, term,
                   decodeVars, consuming, peerVars>>

\* Lines 117, 122: Recv returns another error; the reader goes to send the record.
RecvError(err) ==
    /\ rpc = "recv"
    /\ rpc' = "sendErr"
    /\ recvErr' = err
    /\ UNCHANGED <<listenerVars, cur, i, cap, closed, sent, nGot, blocks, nRecv, term,
                   decodeVars,
                   consuming, peerVars>>

\* SendStreamError without the return: the loop goes back to Recv.
SendStreamError_NoReturn ==
    /\ rpc = "sendErr"
    /\ ChanSend(Item(0, 0, WithError(ZeroResponse, recvErr)))
    /\ Disconnect
    /\ rpc' = "recv"
    /\ term' = "Failed"
    /\ UNCHANGED <<lpc, ret, wire, cur, i, recvErr, cap, closed, blocks, nRecv, decodeVars,
                   consuming, peerVars>>

\* Lines 123-125: the send of the error record completes; disconnect; return.
SendStreamError ==
    /\ rpc = "sendErr"
    /\ ChanSend(Item(0, 0, WithError(ZeroResponse, recvErr)))
    /\ Disconnect
    /\ rpc' = "done"
    /\ term' = "Failed"
    /\ UNCHANGED <<lpc, ret, wire, cur, i, recvErr, cap, closed, blocks, nRecv, decodeVars,
                   consuming, peerVars>>

\* Where the reader stands after taking in block b (lines 130-131).
AfterBlock(b) ==
    IF ~b.hasMetadata \/ ~b.hasData THEN "panic"
    ELSE IF Len(b.data) = 0 THEN "recv"
    ELSE "send"

\* Lines 117, 128-131: Recv returns a Block message.
RecvBlock(b) ==
    /\ rpc = "recv"
    /\ nRecv < MaxMsgs
    /\ nRecv' = nRecv + 1
    /\ blocks' = Append(blocks, b)
    /\ cur' = b
    /\ i' = 0
    /\ rpc' = AfterBlock(b)
    /\ term' = IF AfterBlock(b) = "panic" THEN "Panic" ELSE term
    /\ UNCHANGED <<listenerVars, recvErr, cap, closed, sent, nGot, decodeVars,
                   consuming, peerVars>>

\* RecvOther that takes an unknown message for the end of the stream.
RecvOther_Ends(kind) ==
    /\ rpc = "recv"
    /\ nRecv < MaxMsgs
    /\ nRecv' = nRecv + 1
    /\ Disconnect
    /\ rpc' = "done"
    /\ UNCHANGED <<lpc, ret, wire, cur, i, recvErr, cap, closed, sent, nGot, blocks,
                   term, decodeVars, consuming, peerVars>>

\* Lines 117, 128-136: a message of another kind matches no case of the switch.
RecvOther(kind) ==
    /\ rpc = "recv"
    /\ nRecv < MaxMsgs
    /\ nRecv' = nRecv + 1
    /\ UNCHANGED <<listenerVars, rpc, cur, i, recvErr, cap, closed, sent, nGot, blocks,
                   term, decodeVars,
                   consuming, peerVars>>

\* The decode of entry i of the current block (line 132, the send's operand).
CurDecode == DecodeEventBlock(At(cur.data, i), cur.number, i, cur.metadata)

\* NextIndex that skips an entry.
NextIndex_Skip(k) == k + 2

\* The loop index after entry k's record went out.
NextIndex(k) == k + 1

\* Line 132: the record of entry i is sent; the loop goes on (or back to Recv).
SendRecord ==
    /\ rpc = "send"
    /\ CurDecode.panic = "none"
    /\ ChanSend(Item(Len(blocks), i, CurDecode.resp))
    /\ i' = NextIndex(i)
    /\ rpc' = IF NextIndex(i) < Len(cur.data) THEN "send" ELSE "recv"
    /\ UNCHANGED <<listenerVars, cur, recvErr, cap, closed, blocks, nRecv, term, decodeVars,
                   consuming, peerVars>>

\* Line 132: DecodeEventBlock panics; nothing recovers, the process dies.
DecodePanic ==
    /\ rpc = "send"
    /\ CurDecode.panic # "none"
    /\ rpc' = "panic"
    /\ term' = "Panic"
    /\ UNCHANGED <<listenerVars, cur, i, recvErr, cap, closed, sent, nGot, blocks, nRecv,
                   decodeVars,
                   consuming, peerVars>>

-----------------------------------------------------------------------------
(* Specifications *)

Init ==
    /\ lpc = "start"
    /\ ret = "pending"
    /\ connection = "none"
    /\ client = "none"
    /\ wire = <<>>
    /\ rpc = "idle"
    /\ cur = NoBlock
    /\ i = 0
    /\ recvErr = "nil"
    /\ cap \in 0..MaxCap
    /\ closed = FALSE
    /\ sent = <<>>
    /\ nGot = 0
    /\ blocks = <<>>
    /\ nRecv = 0
    /\ term = "no"
    /\ dIn = NoCall
    /\ dOut = Returns(ZeroResponse)
    /\ dpc = "idle"
    /\ consuming = TRUE
    /\ peerOf = [s \in Subs |-> "peer0"]
    /\ PeersUntouched

\* The process is alive: a panic of the reader goroutine ends everything.
Alive == rpc # "panic"

Next ==
    \/ Dial
    \/ Chat
    \/ Register
    \/ Go
    \/ RecvEOF
    \/ \E err \in RecvErrors : RecvError(err)
    \/ SendStreamError
    \/ \E b \in Blocks : RecvBlock(b)
    \/ \E kind \in OtherKinds : RecvOther(kind)
    \/ SendRecord
    \/ DecodePanic
    \/ (Alive /\ Receive)
    \/ (Alive /\ ConsumerStops)

Spec == Init /\ [][Next]_vars

\* The Go scheduler runs a goroutine that can take a step, and a consumer that
\* has not stopped takes the values offered to it.
Fairness ==
    /\ WF_vars(RecvEOF)
    /\ WF_vars(SendStreamError)
    /\ WF_vars(SendRecord)
    /\ WF_vars(DecodePanic)
    /\ WF_vars(Alive /\ Receive)

SpecFair == Init /\ [][Next]_vars /\ Fairness

\* Several newEventListener calls, each on one of the Peer values, inside connect.
InitPeers ==
    /\ lpc = "start"
    /\ ret = "pending"
    /\ connection = "none"
    /\ client = "none"
    /\ wire = <<>>
    /\ rpc = "idle"
    /\ cur = NoBlock
    /\ i = 0
    /\ recvErr = "nil"
    /\ cap = 0
    /\ closed = FALSE
    /\ sent = <<>>
    /\ nGot = 0
    /\ blocks = <<>>
    /\ nRecv = 0
    /\ term = "no"
    /\ dIn = NoCall
    /\ dOut = Returns(ZeroResponse)
    /\ dpc = "idle"
    /\ consuming = TRUE
    /\ peerOf \in [Subs -> Peers]
    /\ PeersUntouched

NextPeers ==
    \/ \E s \in Subs : AppendOpts(s)
    \/ \E s \in Subs : StoreOpts(s)
    \/ \E s \in Subs : DialWithOpts(s)

SpecPeers == InitPeers /\ [][NextPeers]_vars

\* A stand-alone call of DecodeEventBlock on arguments drawn from DecodeCalls.
InitDecode ==
    /\ lpc = "start"
    /\ ret = "pending"
    /\ connection = "none"
    /\ client = "none"
    /\ wire = <<>>
    /\ rpc = "idle"
    /\ cur = NoBlock
    /\ i = 0
    /\ recvErr = "nil"
    /\ cap = 0
    /\ closed = FALSE
    /\ sent = <<>>
    /\ nGot = 0
    /\ blocks = <<>>
    /\ nRecv = 0
    /\ term = "no"
    /\ dIn \in DecodeCalls
    /\ dOut = Returns(ZeroResponse)
    /\ dpc = "ready"
    /\ consuming = TRUE
    /\ peerOf = [s \in Subs |-> "peer0"]
    /\ PeersUntouched

DecodeCall ==
    /\ dpc = "ready"
    /\ dOut' = DecodeEventBlock(dIn.pl, dIn.blockNum, dIn.idx, dIn.metadata)
    /\ dpc' = "done"
    /\ UNCHANGED <<listenerVars, readerVars, cap, dIn, consuming, peerVars>>

NextDecode == DecodeCall

SpecDecode == InitDecode /\ [][NextDecode]_vars

-----------------------------------------------------------------------------
(* Properties of the stream reader (checked under Spec) *)

\* The records of transaction entries among the values sent (the stream-error
\* record is the one that carries a Recv error).
IsStreamError(item) == item.rec.Error \in RecvErrors
TxItems == SelectSeq(sent, LAMBDA item : ~IsStreamError(item))
Tags(items) == [k \in 1..Len(items) |-> <<items[k].blk, items[k].idx>>]

\* Entries 0..n-1 of the j-th block, and those of the first j blocks, in order.
EntriesOf(j, n) == [k \in 1..n |-> <<j, k - 1>>]
RECURSIVE Flatten(_)
Flatten(j) == IF j = 0 THEN <<>> ELSE Flatten(j - 1) \o EntriesOf(j, Len(blocks[j].data))

\* The reader is inside the loop over the last block it received.
InLoop == rpc \in {"send", "panic"}

\* Records sent for the j-th block.
CountFor(j) == Cardinality({k \in 1..Len(sent) : sent[k].blk = j})

\* The reader is through with block j: it went back to Recv after it.
LeftBlock(j) == j < Len(blocks) \/ (j = Len(blocks) /\ ~InLoop)

\* The reader has come to entry k of block j: it sent its record, or died on it.
Handled(j, k) ==
    \/ j < Len(blocks)
    \/ /\ j = Len(blocks)
       /\ blocks[j].hasData /\ blocks[j].hasMetadata
       /\ (k < i \/ (k = i /\ rpc = "panic"))

HasRecord(j, k) ==
    \E n \in 1..Len(sent) : sent[n].blk = j /\ sent[n].idx = k /\ sent[n].rec.Error # "nil"

\* Stages 1, 3 and 4 of the decode pass on this entry.
OuterOk(pl) == pl.envOk /\ pl.chOk /\ pl.extOk

\* C1: the records sent on the channel are, at every moment and for every
\* channel capacity and consumer pace, exactly the entries the reader has come
\* to, in block arrival order and index order 0..n-1 within a block: none is
\* reordered, duplicated or left out.
C1_DeliveredInOrder ==
    Tags(TxItems) =
        IF InLoop
        THEN Flatten(Len(blocks) - 1) \o EntriesOf(Len(blocks), i)
        ELSE Flatten(Len(blocks))

C1_Witness ==
    /\ Len(blocks) = 2
    /\ Len(blocks[1].data) = 2
    /\ Len(sent) = 3
    /\ nGot < Len(sent)
    /\ rpc = "recv"

\* C2 as claimed: every block the reader is through with got exactly n
\* records, and the k-th record carries the block's number and the index k.
C2_EveryRecordCarriesHeightAndIndex ==
    /\ \A j \in 1..Len(blocks) : LeftBlock(j) => CountFor(j) = Len(blocks[j].data)
    /\ \A n \in 1..Len(TxItems) :
          LET item == TxItems[n]
          IN  /\ item.rec.BlockHeight = blocks[item.blk].number
              /\ item.rec.TxIndex = item.idx

\* C2 amended: a block never gets more than n records, and exactly n once the
\* reader has gone back to Recv after it; the k-th record carries the block's
\* number and the index k when entry k passed stages 1-4, and zero in both
\* fields when it failed in stage 1, 3 or 4.
C2_HeightAndIndexWhenHeadersParse ==
    /\ \A j \in 1..Len(blocks) :
          /\ CountFor(j) <= Len(blocks[j].data)
          /\ LeftBlock(j) => CountFor(j) = Len(blocks[j].data)
    /\ \A n \in 1..Len(TxItems) :
          LET item == TxItems[n]
              pl == At(blocks[item.blk].data, item.idx)
          IN  IF OuterOk(pl)
              THEN /\ item.rec.BlockHeight = blocks[item.blk].number
                   /\ item.rec.TxIndex = item.idx
              ELSE /\ item.rec.BlockHeight = 0
                   /\ item.rec.TxIndex = 0

C2_Witness ==
    /\ rpc = "recv"
    /\ Len(blocks) = 1
    /\ blocks[1].data = <<BadEnvelopeTx, EndorserTx>>
    /\ Len(sent) = 2
    /\ sent[2].rec.BlockHeight = 7
    /\ sent[2].rec.TxIndex = 1

\* C3: the step on which Recv returns end-of-input closes the stream and the
\* connection, ends the reader and sends nothing; no stream-error record was
\* sent, and nothing is sent afterwards.
C3_CleanEndOfInput ==
    /\ [](term = "Closed" =>
            /\ rpc = "done"
            /\ connection = "closed"
            /\ client = "sendClosed"
            /\ \A n \in 1..Len(sent) : ~IsStreamError(sent[n]))
    /\ [][/\ (term # "Closed" /\ term' = "Closed") => sent' = sent
          /\ term = "Closed" => (sent' = sent /\ term' = "Closed")]_vars

C3_Witness ==
    /\ term = "Closed"
    /\ Len(sent) = 2
    /\ connection = "closed"

\* C4: a Recv error other than end-of-input puts exactly one record on the
\* channel, with that error and nothing else set; then the connection is
\* closed and the reader ends. There is never more than one such record, it is
\* the last value sent, and nothing is sent after it.
C4_OneTerminalError ==
    /\ [](LET errs == {n \in 1..Len(sent) : IsStreamError(sent[n])}
          IN  /\ Cardinality(errs) <= 1
              /\ errs # {} <=> term = "Failed"
              /\ term = "Failed" =>
                    /\ errs = {Len(sent)}
                    /\ sent[Len(sent)].rec = [ZeroResponse EXCEPT !.Error = recvErr]
                    /\ recvErr \in RecvErrors
                    /\ connection = "closed"
                    /\ client = "sendClosed"
                    /\ rpc = "done")
    /\ [][term = "Failed" => (sent' = sent /\ term' = "Failed")]_vars

C4_Witness ==
    /\ term = "Failed"
    /\ Len(sent) = 3
    /\ sent[3].rec.Error = "ErrCanceled"

\* C5 as claimed: once the stream has ended cleanly and the consumer has
\* received every record, the consumer has a completion signal: the channel
\* is closed.
C5_CompletionSignalled ==
    (term = "Closed" /\ nGot = Len(sent)) => closed

\* Some unmarshal on the decode path of this entry fails.
DecodeFails(pl) ==
    \/ ~pl.envOk
    \/ ~pl.payOk
    \/ ~pl.chOk
    \/ ~pl.extOk
    \/ /\ pl.Type = HeaderType_ENDORSER_TRANSACTION
       /\ ~(pl.txOk /\ pl.capOk /\ pl.cppOk /\ pl.cisOk /\ pl.prpOk /\ pl.caOk /\ pl.evOk)

\* C6 as claimed: a decode failure at any stage is attached to the entry's
\* record and the reader keeps streaming: every entry the reader has come to
\* whose decode fails has its record, with the error, on the channel, and the
\* reader has not died on it.
C6_DecodeFailureIsPerTransaction ==
    \A j \in 1..Len(blocks) : \A k \in 0..(Len(blocks[j].data) - 1) :
        (Handled(j, k) /\ DecodeFails(At(blocks[j].data, k))) =>
            /\ HasRecord(j, k)
            /\ ~(rpc = "panic" /\ j = Len(blocks) /\ k = i)

\* The entry parses down to a Transaction that has no action.
ZeroActions(pl) ==
    /\ OuterOk(pl) /\ pl.payOk /\ pl.hasHeader
    /\ pl.Type = HeaderType_ENDORSER_TRANSACTION
    /\ pl.txOk
    /\ pl.nActions = 0

\* C7 as claimed: an endorser transaction with zero actions yields a record
\* with an error, and the reader goes on: it does not die on that entry.
C7_ZeroActionsReported ==
    \A j \in 1..Len(blocks) : \A k \in 0..(Len(blocks[j].data) - 1) :
        (Handled(j, k) /\ ZeroActions(At(blocks[j].data, k))) =>
            /\ HasRecord(j, k)
            /\ ~(rpc = "panic" /\ j = Len(blocks) /\ k = i)

\* C8: when newEventListener returns an error, it is the error of the step
\* that failed (dial, stream open, sign or send), the reader goroutine was not
\* started and nothing is ever sent on the channel.
C8_FailureReturnsBeforeReader ==
    (ret \notin {"pending", "nil"}) =>
        /\ lpc = "returned"
        /\ rpc = "idle"
        /\ sent = <<>>
        /\ nGot = 0
        /\ ret \in {"ErrDial", "ErrChat", "ErrSign", "ErrSend"}
        /\ ret = "ErrDial" <=> connection = "none"
        /\ ret = "ErrChat" <=> (connection = "open" /\ client = "none")
        /\ wire = <<>>

C8_Witness ==
    /\ ret = "ErrSend"
    /\ connection = "open"
    /\ client = "open"

-----------------------------------------------------------------------------
(* Properties of DecodeEventBlock (checked under SpecDecode) *)

\* The call returned a record.
Decoded == dpc = "done" /\ dOut.panic = "none"

\* The decode stops in stage 1, 3 or 4: envelope, channel header or extension.
OuterFailure(pl) == ~pl.envOk \/ (pl.hasHeader /\ (~pl.chOk \/ ~pl.extOk))

\* C9: a record of an outer-stage failure (envelope, channel header or header
\* extension does not parse) has the error set and every other field zero.
C9_OuterFailureOnlyError ==
    (Decoded /\ OuterFailure(dIn.pl)) =>
        /\ dOut.resp.Error \in {"ErrEnvelope", "ErrChannelHeader", "ErrHeaderExtension"}
        /\ dOut.resp.IsVaild = FALSE
        /\ dOut.resp.BlockHeight = 0
        /\ dOut.resp.TxIndex = 0
        /\ dOut.resp.TxID = ""
        /\ dOut.resp.ChannelName = ""
        /\ dOut.resp.ChainCodeName = ""
        /\ dOut.resp.ChainCodeVersion = ""
        /\ dOut.resp.Status = 0
        /\ dOut.resp.ChainCodeInput = <<>>
        /\ dOut.resp.CCEvents = <<>>

C9_Witness ==
    /\ Decoded
    /\ dIn.pl.envOk /\ dIn.pl.payOk /\ dIn.pl.hasHeader /\ dIn.pl.chOk /\ ~dIn.pl.extOk
    /\ dIn.blockNum = 7
    /\ dIn.idx = 1
    /\ dOut.resp.Error = "ErrHeaderExtension"

\* Stages 1-4 pass and an unmarshal of stage 6 fails.
EarlyInnerFailure(pl) == ~(pl.txOk /\ pl.capOk /\ pl.cppOk /\ pl.cisOk)
LateInnerFailure(pl) == ~EarlyInnerFailure(pl) /\ ~(pl.prpOk /\ pl.caOk /\ pl.evOk)
InnerFailure(pl) ==
    /\ OuterOk(pl)
    /\ pl.Type = HeaderType_ENDORSER_TRANSACTION
    /\ (EarlyInnerFailure(pl) \/ LateInnerFailure(pl))

\* The record keeps what stage 5 resolved, and has the error set.
KeepsBaseFields ==
    /\ dOut.resp.Error # "nil"
    /\ dOut.resp.BlockHeight = dIn.blockNum
    /\ dOut.resp.TxIndex = dIn.idx
    /\ dOut.resp.TxID = dIn.pl.TxId
    /\ dOut.resp.ChannelName = dIn.pl.ChannelId

\* C10 as claimed: a record of a stage-6 failure has the error set, keeps
\* blockHeight, txIndex, txId and channelName, and has neither invocation
\* arguments nor events.
C10_InnerFailureNoArgsNoEvents ==
    (Decoded /\ InnerFailure(dIn.pl)) =>
        /\ KeepsBaseFields
        /\ dOut.resp.ChainCodeInput = <<>>
        /\ dOut.resp.CCEvents = <<>>

\* C10 amended: a record of a stage-6 failure has the error set, keeps
\* blockHeight, txIndex, txId and channelName and has no events; it has no
\* invocation arguments when the failure is in the transaction, the action
\* payload, the proposal payload or the invocation spec, and it keeps the
\* decoded arguments when the failure is in the proposal response payload, the
\* chaincode action or the chaincode event.
C10_InnerFailureKeepsResolvedFields ==
    (Decoded /\ InnerFailure(dIn.pl)) =>
        /\ KeepsBaseFields
        /\ dOut.resp.CCEvents = <<>>
        /\ EarlyInnerFailure(dIn.pl) => dOut.resp.ChainCodeInput = <<>>
        /\ LateInnerFailure(dIn.pl) => dOut.resp.ChainCodeInput = dIn.pl.Args

C10_Witness ==
    /\ Decoded
    /\ InnerFailure(dIn.pl)
    /\ ~dIn.pl.caOk
    /\ dIn.blockNum = 7
    /\ dIn.idx = 1
    /\ dOut.resp.Error = "ErrChaincodeAction"
    /\ dOut.resp.ChainCodeInput = InvokeArgs

\* Stages 1-4 of the decode pass on this entry: the base fields are reached.
HeadersPass(pl) == pl.envOk /\ pl.hasHeader /\ pl.chOk /\ pl.extOk

\* The validation flags the call was given, and the byte at position k.
FlagsOf(call) == At(call.metadata, BlockMetadataIndex_TRANSACTIONS_FILTER)
FlagByte(call, k) == At(FlagsOf(call), k)

\* C11: in every record whose base fields were set, isValid is true exactly
\* when the validation-flag byte at position txIndex of the metadata's
\* transaction-filter entry is the valid code 0, whatever the other bytes are.
C11_IsValidIsFlagByteAtIndex ==
    (Decoded /\ HeadersPass(dIn.pl)) =>
        (dOut.resp.IsVaild <=> (FlagByte(dIn, dIn.idx) = 0))

C11_Witness ==
    /\ Decoded
    /\ HeadersPass(dIn.pl)
    /\ dIn.idx = 1
    /\ FlagsOf(dIn) = <<TxValidationCode_MVCC_READ_CONFLICT, TxValidationCode_VALID>>
    /\ dOut.resp.IsVaild = TRUE

-----------------------------------------------------------------------------
(* Properties of register and connect *)

\* C12: the message register puts on the stream carries the marshalled request
\* as EventBytes and, as Signature, what Sign returned for exactly those bytes;
\* register sends one message at most, and none when Sign fails.
C12_SignedBytesAreSentBytes ==
    /\ Len(wire) <= 1
    /\ \A k \in 1..Len(wire) :
          /\ wire[k].EventBytes = EvtBytes
          /\ wire[k].Signature = Sign(wire[k].EventBytes)
    /\ ret = "ErrSign" => wire = <<>>

C12_Witness ==
    /\ Len(wire) = 1
    /\ ret = "nil"
    /\ rpc = "recv"

\* C13 as claimed: subscriptions share no mutable state, also when they are
\* created for the same Peer value: what a call passes to grpc.Dial is the
\* caller's options plus its own three, whatever other calls do or have done.
C13_SubscriptionsShareNoState ==
    \A s \in Subs : cpc[s] = "dialed" => dialOpts[s] = CallerOpts \o AddedOpts

-----------------------------------------------------------------------------
(* The subscription's life cycle *)

\* The state of the subscription, read off the hub and its reader.
SubState ==
    IF term = "Closed" THEN "Closed"
    ELSE IF term = "Failed" THEN "Failed"
    ELSE IF rpc # "idle" THEN "Streaming"
    ELSE IF wire # <<>> THEN "Registered"
    ELSE IF client = "open" THEN "Connected"
    ELSE "Disconnected"

LifeCycle ==
    {<<"Disconnected", "Connected">>, <<"Connected", "Registered">>,
     <<"Registered", "Streaming">>, <<"Streaming", "Closed">>, <<"Streaming", "Failed">>}

\* C14: every step leaves the subscription's state alone or moves it one edge
\* along Disconnected -> Connected -> Registered -> Streaming -> {Closed,
\* Failed}; the reader starts only from Registered and, once started, is never
\* started again; the connection is closed only on the step that leaves
\* Streaming, to Closed with nothing sent (end-of-input) or to Failed with the
\* stream-error record sent.
C14_LifeCycle ==
    [][/\ SubState' = SubState \/ <<SubState, SubState'>> \in LifeCycle
       /\ (rpc = "idle" /\ rpc' # "idle") => (SubState = "Registered" /\ ret' = "nil")
       /\ rpc # "idle" => (rpc' # "idle" /\ lpc' = lpc)
       /\ (connection # "closed" /\ connection' = "closed") =>
             /\ SubState = "Streaming"
             /\ SubState' \in {"Closed", "Failed"}
       /\ (SubState = "Streaming" /\ SubState' = "Closed") => sent' = sent
       /\ (SubState = "Streaming" /\ SubState' = "Failed") =>
             /\ Len(sent') = Len(sent) + 1
             /\ IsStreamError(sent'[Len(sent')])
      ]_vars

C14_Witness ==
    /\ SubState = "Failed"
    /\ connection = "closed"
    /\ Len(blocks) = 1
    /\ Len(sent) = 3

-----------------------------------------------------------------------------
(* Properties of DecodeEventBlock, continued *)

\* Base fields as stage 5 sets them.
BaseFieldsSet ==
    /\ dOut.resp.BlockHeight = dIn.blockNum
    /\ dOut.resp.TxIndex = dIn.idx
    /\ dOut.resp.TxID = dIn.pl.TxId
    /\ dOut.resp.ChannelName = dIn.pl.ChannelId

\* A panic of the base-field stage: an index into the metadata out of range.
MetadataPanics == {"index out of range: metadata[2]", "index out of range: txsFltr[idx]"}

\* C15 as claimed: when the payload does not unmarshal, or the envelope's
\* payload is empty (no header), the call does not fault on the missing
\* header: it goes on to stage 3 and returns a record, with the stage-2 error
\* (or a later one) recorded when the unmarshal failed.
C15_Stage2FailureStillReturns ==
    (dpc = "done" /\ dIn.pl.envOk /\ (~dIn.pl.payOk \/ ~dIn.pl.hasHeader)) =>
        /\ dOut.panic # "nil payload.Header"
        /\ (Decoded /\ ~dIn.pl.payOk) => dOut.resp.Error # "nil"

\* C16 as claimed: once stages 1-4 passed, stage 5 succeeds for any metadata:
\* the call does not fault on a metadata index, and the record it returns has
\* blockHeight, txIndex, txId and channelName set.
C16_BaseFieldsAlwaysSucceed ==
    (dpc = "done" /\ HeadersPass(dIn.pl)) =>
        /\ dOut.panic \notin MetadataPanics
        /\ Decoded => BaseFieldsSet

\* C18: in every record whose base fields were set, statusCode is the byte at
\* txIndex of the metadata entry that holds the validation flags, so it is 0
\* exactly when isValid is true.
C18_StatusIsFlagByte ==
    (Decoded /\ HeadersPass(dIn.pl)) =>
        /\ dOut.resp.Status = FlagByte(dIn, dIn.idx)
        /\ dOut.resp.Status = 0 <=> dOut.resp.IsVaild

C18_Witness ==
    /\ Decoded
    /\ HeadersPass(dIn.pl)
    /\ dIn.idx = 1
    /\ FlagsOf(dIn) = <<TxValidationCode_VALID, TxValidationCode_MVCC_READ_CONFLICT>>
    /\ dOut.resp.Status = 11
    /\ dOut.resp.IsVaild = FALSE

-----------------------------------------------------------------------------
(* Properties of the stream reader, continued *)

\* A step on which Recv returns a message that is not a Block.
OtherMessageStep == nRecv' = nRecv + 1 /\ blocks' = blocks

\* C17: a message that is not a Block is ignored: on that step nothing is
\* sent, the stream and the connection stay as they are, and the reader is
\* back at Recv.
C17_OtherMessagesIgnored ==
    [][OtherMessageStep =>
          /\ sent' = sent
          /\ connection' = connection
          /\ client' = client
          /\ term' = term
          /\ rpc = "recv" /\ rpc' = "recv"]_vars

C17_Witness ==
    /\ nRecv = 2
    /\ Len(blocks) = 1
    /\ Len(sent) = 2
    /\ rpc = "recv"
    /\ connection = "open"

\* C19 as claimed: when newEventListener has returned an error, no connection
\* it opened is still open.
C19_NoOpenConnectionAfterError ==
    (ret \notin {"pending", "nil"}) => connection # "open"

\* A step on which the reader calls Recv (line 117): a message is taken in,
\* or Recv returns io.EOF or another error.
ReadStep ==
    \/ nRecv' # nRecv
    \/ rpc = "recv" /\ rpc' # "recv"

\* The reader stands in a channel send (lines 123, 132) that cannot complete
\* without the consumer: the buffer is full, or the channel is unbuffered.
SendBlocked ==
    /\ \/ rpc = "sendErr"
       \/ rpc = "send" /\ CurDecode.panic = "none"
    /\ ~(Len(sent) - nGot < cap)

\* The reader has seen the end of its input: io.EOF or a transport error.
InputEnded == rpc = "sendErr" \/ term = "Closed"

\* C20: the reader reads the stream again only when every record of the blocks
\* it took in has been accepted by the channel; while the consumer has stopped
\* and a send is blocked, the reader stays where it is and the connection is
\* not closed; and after end of input the reader closes the connection and
\* returns, unless the consumer stops receiving.
C20_Backpressure ==
    /\ [][ReadStep => Tags(TxItems) = Flatten(Len(blocks))]_vars
    /\ [][(~consuming /\ SendBlocked) =>
             /\ rpc' = rpc
             /\ sent' = sent
             /\ connection' = connection
             /\ connection # "closed"
             /\ ~consuming']_vars
    /\ [](InputEnded => <>((connection = "closed" /\ rpc = "done") \/ ~consuming))

C20_Witness ==
    /\ ~consuming
    /\ rpc = "sendErr"
    /\ SendBlocked
    /\ Len(sent) > 0
    /\ connection = "open"

====
